---- MODULE Spec2Model ----
(***************************************************************************)
(* TinyDB two-phase-locking transaction manager                            *)
(* (src/src/concurrency/two_phase_locking.cpp).                            *)
(*                                                                         *)
(* The manager's handlers are translated statement by statement.  A        *)
(* handler is one step, except where it calls into the lock manager or     *)
(* gives up the context: Read is split at a LockShared that blocks and     *)
(* before GetTuple; Commit/Abort are split at each Unlock of               *)
(* ReleaseAllLocks, at deregistration + delete and at the return.          *)
(*                                                                         *)
(* TwoPLContext, the lock manager, the transaction map and TINYDB_ASSERT   *)
(* are declared in headers that are not part of the translated source;     *)
(* they are modelled from the written specification (sections 4.3 and 6).  *)
(***************************************************************************)
EXTENDS Integers, Sequences, FiniteSets, TLC

\* ---------------------------------------------------------------- bounds
MaxTxn == 2          \* Begin is called at most MaxTxn times
MaxRid == 1          \* RIDs are 1..MaxRid
MaxActions == 2      \* writes registering thunks, per context

Txns == 0 .. (MaxTxn - 1)
RIDs == 1 .. MaxRid
ThreadOrder == <<"A", "B">>
Threads == {ThreadOrder[i] : i \in DOMAIN ThreadOrder}      \* the client threads
Rank(th) == CHOOSE i \in DOMAIN ThreadOrder : ThreadOrder[i] = th

\* IsolationLevel (READ_UNCOMMITTED and READ_COMMITTED are named by Read)
IsolationLevel == {"READ_UNCOMMITTED", "READ_COMMITTED", "REPEATABLE_READ", "SERIALIZABLE"}

VARIABLES
    next_txn_id_,   \* TwoPLManager::next_txn_id_ (atomic counter)
    txn_map_,       \* ids registered in the transaction map
    ctx,            \* ctx[t]: the TwoPLContext with txn id t
    freed,          \* ids whose context has been deleted
    owner,          \* owner[t]: the thread that called Begin for t
    thr             \* thr[th]: the call a thread is executing (its frame)

vars == <<next_txn_id_, txn_map_, ctx, freed, owner, thr>>

\* ------------------------------------------------- TwoPLContext (header)
NewContext(iso) ==
    [state |-> "GROWING", isolation_level_ |-> iso,
     shared_lock_set_ |-> {}, exclusive_lock_set_ |-> {},
     abort_action_ |-> <<>>, commit_action_ |-> <<>>]

IsAborted(c) == c.state = "ABORTED"
IsSharedLocked(c, rid) == rid \in c.shared_lock_set_
IsExclusiveLocked(c, rid) == rid \in c.exclusive_lock_set_
SetCommitted(c) == [c EXCEPT !.state = "COMMITTED"]
SetAborted(c) == [c EXCEPT !.state = "ABORTED"]
HeldLocks(c) == c.shared_lock_set_ \cup c.exclusive_lock_set_

\* --------------------------------------------------- lock manager (header)
\* The lock table is kept in step with the contexts' lock sets, so the
\* holders of a RID are read off the contexts.
Allocated == {t \in Txns : t < next_txn_id_}
OtherExclusive(t, rid) == \E u \in Allocated \ {t} : IsExclusiveLocked(ctx[u], rid)
OtherHolder(t, rid) == \E u \in Allocated \ {t} : rid \in HeldLocks(ctx[u])

\* LockShared granted: rid joins the shared set
GrantShared(c, rid) == [c EXCEPT !.shared_lock_set_ = @ \cup {rid}]
\* LockExclusive granted: rid joins the exclusive set; an S entry is upgraded
GrantExclusive(c, rid) ==
    [c EXCEPT !.exclusive_lock_set_ = @ \cup {rid}, !.shared_lock_set_ = @ \ {rid}]
\* Unlock: releases whichever mode is held
Unlock(c, rid) ==
    [c EXCEPT !.shared_lock_set_ = @ \ {rid}, !.exclusive_lock_set_ = @ \ {rid}]

\* ------------------------------------------------------------- frames
\* pc, op, t, rid: the call and where it stands; lock_set: the local of
\* ReleaseAllLocks; cont: the statements still to run; was: the state the
\* call found; log: what the call has done so far; res: the value returned;
\* isolation_level: the argument of Begin
IdleFrame == [pc |-> "idle", op |-> "none", t |-> 0, rid |-> 1,
              lock_set |-> {}, cont |-> <<>>, was |-> "NONE", log |-> <<>>,
              res |-> "NONE", isolation_level |-> "READ_UNCOMMITTED"]

\* A log entry: what was done (ev, n) and the context as it was at that moment
Event(e, n, c) == [ev |-> e, n |-> n, held |-> HeldLocks(c), state |-> c.state]

Init ==
    /\ next_txn_id_ = 0
    /\ txn_map_ = {}
    /\ ctx = [t \in Txns |-> NewContext("READ_UNCOMMITTED")]
    /\ freed = {}
    /\ owner = [t \in Txns |-> ThreadOrder[1]]
    /\ thr = [th \in Threads |-> IdleFrame]

\* The client's use of a context.  Owns: the calling discipline the manager
\* relies on (one thread per transaction, no call after Commit/Abort).
Owns(th, t) == t \in Allocated /\ owner[t] = th /\ t \notin freed
\* Any thread that was handed the pointer
Reaches(th, t) == t \in Allocated
\* A thread takes one transaction at a time; a new transaction goes to the
\* first thread that has none
Spare(th) == \A t \in Allocated : ~Owns(th, t)
FirstSpare(th) == Spare(th) /\ \A u \in Threads : Rank(u) < Rank(th) => ~Spare(u)

\* ------------------------------------------------ TwoPLManager::Begin
Begin(th, iso) ==
    /\ thr[th].pc = "idle"
    /\ next_txn_id_ < MaxTxn
    /\ LET txn_id == next_txn_id_ IN
        /\ next_txn_id_' = next_txn_id_ + 1
        /\ ctx' = [ctx EXCEPT ![txn_id] = NewContext(iso)]
        /\ txn_map_' = txn_map_ \cup {txn_id}
        /\ owner' = [owner EXCEPT ![txn_id] = th]
    /\ UNCHANGED <<freed, thr>>

\* TwoPLContext: a write registers its undo thunk (AppendAbortAction) and
\* its deferred thunk (AppendCommitAction); the thunks of one write carry the
\* same number
AppendActions(th, t) ==
    /\ thr[th].pc = "idle"
    /\ Len(ctx[t].abort_action_) < MaxActions
    /\ ctx' = [ctx EXCEPT ![t].abort_action_ = Append(@, Len(@) + 1),
                          ![t].commit_action_ = Append(@, Len(@) + 1)]
    /\ UNCHANGED <<next_txn_id_, txn_map_, freed, owner, thr>>

\* LockManager::LockExclusive called for the transaction: granted when no
\* other transaction holds rid (blocked otherwise: not enabled)
LockExclusive(th, t, rid) ==
    /\ thr[th].pc = "idle"
    /\ ~IsExclusiveLocked(ctx[t], rid)
    /\ ~OtherHolder(t, rid)
    /\ ctx' = [ctx EXCEPT ![t] = GrantExclusive(@, rid)]
    /\ UNCHANGED <<next_txn_id_, txn_map_, freed, owner, thr>>

\* ... or the blocked requester is chosen as deadlock victim
LockExclusiveAborted(th, t, rid) ==
    /\ thr[th].pc = "idle"
    /\ ~IsExclusiveLocked(ctx[t], rid)
    /\ OtherHolder(t, rid)
    /\ ctx' = [ctx EXCEPT ![t] = SetAborted(@)]
    /\ UNCHANGED <<next_txn_id_, txn_map_, freed, owner, thr>>

\* The state a call finds the context in
Was(t) == IF t \in freed THEN "FREED" ELSE ctx[t].state

\* ------------------------------------------------- TwoPLManager::Read
\* line 19: TINYDB_ASSERT(txn_context->IsAborted() == false, ...)
Precondition(c) == IsAborted(c) = FALSE

\* (variant: the isolation level is not consulted)
NeedSharedLockAnyLevel(c, rid) ==
    /\ ~IsSharedLocked(c, rid)
    /\ ~IsExclusiveLocked(c, rid)

\* (variant: a held exclusive lock is not consulted)
NeedSharedLockIgnoresExclusive(c, rid) ==
    /\ c.isolation_level_ # "READ_UNCOMMITTED"
    /\ ~IsSharedLocked(c, rid)

\* lines 25-27: the condition under which Read calls LockShared
NeedSharedLock(c, rid) ==
    /\ c.isolation_level_ # "READ_UNCOMMITTED"
    /\ ~IsSharedLocked(c, rid)
    /\ ~IsExclusiveLocked(c, rid)

\* (variant: the release does not look at the lock mode)
NeedUnlockAnyMode(c, rid) ==
    /\ c.isolation_level_ = "READ_COMMITTED"
    /\ rid \in HeldLocks(c)

\* (variant: the release does not look at the isolation level)
NeedUnlockAnyLevel(c, rid) == IsSharedLocked(c, rid)

\* lines 42-43: the condition under which Read calls Unlock
NeedUnlock(c, rid) ==
    /\ c.isolation_level_ = "READ_COMMITTED"
    /\ IsSharedLocked(c, rid)

\* (variant: a failed GetTuple returns before the release)
AfterFetchEarlyReturn(c, rid, ok) ==
    IF ok /\ NeedUnlock(c, rid) THEN Unlock(c, rid) ELSE c

\* (variant: a failed GetTuple aborts the transaction)
AfterFetchAbortOnSkip(c, rid, ok) ==
    IF ~ok THEN SetAborted(c)
    ELSE IF NeedUnlock(c, rid) THEN Unlock(c, rid) ELSE c

\* lines 35-45: the context after GetTuple returned ok: the failure only
\* sets res; the release does not depend on it
AfterFetch(c, rid, ok) ==
    IF NeedUnlock(c, rid) THEN Unlock(c, rid) ELSE c

\* A call on context t whose assertion fails ends with STATE_VIOLATION
Violation(op, t, rid) ==
    [IdleFrame EXCEPT !.pc = "return", !.op = op, !.t = t, !.rid = rid,
                      !.was = Was(t), !.res = "STATE_VIOLATION"]

\* The frame of a Read at the given statement
Reading(pc, t, rid) ==
    [IdleFrame EXCEPT !.pc = pc, !.op = "read", !.t = t, !.rid = rid, !.was = Was(t)]

\* lines 18-29: the assertion, then the lock request if one is needed:
\* granted at once, or the call blocks in LockShared
ReadCall(th, t, rid) ==
    /\ thr[th].pc = "idle"
    /\ IF ~Precondition(ctx[t])
         THEN /\ thr' = [thr EXCEPT ![th] = Violation("read", t, rid)]
              /\ UNCHANGED ctx
         ELSE IF ~NeedSharedLock(ctx[t], rid)
         THEN /\ thr' = [thr EXCEPT ![th] = Reading("read_fetch", t, rid)]
              /\ UNCHANGED ctx
         ELSE IF ~OtherExclusive(t, rid)
         THEN /\ thr' = [thr EXCEPT ![th] = Reading("read_fetch", t, rid)]
              /\ ctx' = [ctx EXCEPT ![t] = GrantShared(@, rid)]
         ELSE /\ thr' = [thr EXCEPT ![th] = Reading("read_lock", t, rid)]
              /\ UNCHANGED ctx
    /\ UNCHANGED <<next_txn_id_, txn_map_, freed, owner>>

\* line 28: the blocked LockShared returns with the lock granted
ReadLockShared(th) ==
    LET t == thr[th].t  rid == thr[th].rid IN
    /\ thr[th].pc = "read_lock"
    /\ ~OtherExclusive(t, rid)
    /\ ctx' = [ctx EXCEPT ![t] = GrantShared(@, rid)]
    /\ thr' = [thr EXCEPT ![th].pc = "read_fetch"]
    /\ UNCHANGED <<next_txn_id_, txn_map_, freed, owner>>

\* line 28: the blocked LockShared returns after the lock manager aborted
\* the transaction as deadlock victim; the return value is discarded
ReadLockAborted(th) ==
    LET t == thr[th].t  rid == thr[th].rid IN
    /\ thr[th].pc = "read_lock"
    /\ OtherExclusive(t, rid)
    /\ ctx' = [ctx EXCEPT ![t] = SetAborted(@)]
    /\ thr' = [thr EXCEPT ![th].pc = "read_fetch"]
    /\ UNCHANGED <<next_txn_id_, txn_map_, freed, owner>>

\* lines 31-47: GetTuple (ok is its return value), the READ_COMMITTED
\* release, return res
ReadFetch(th, ok) ==
    LET t == thr[th].t  rid == thr[th].rid IN
    /\ thr[th].pc = "read_fetch"
    /\ ctx' = [ctx EXCEPT ![t] = AfterFetch(@, rid, ok)]
    /\ thr' = [thr EXCEPT ![th].pc = "return",
                          ![th].res = IF ok THEN "OK" ELSE "SKIP",
                          ![th].log = <<Event(IF ok THEN "GetTuple" ELSE "GetTupleFailed",
                                              rid, ctx[t])>>]
    /\ UNCHANGED <<next_txn_id_, txn_map_, freed, owner>>

\* ------------------------------- TwoPLManager::Insert / Delete / Update
\* lines 50-62: each body is the assertion alone; the call returns void
Returning(op, t, rid) ==
    [IdleFrame EXCEPT !.pc = "return", !.op = op, !.t = t, !.rid = rid,
                      !.was = Was(t), !.res = "VOID"]

Insert(th, t) ==
    /\ thr[th].pc = "idle"
    /\ thr' = [thr EXCEPT ![th] = IF Precondition(ctx[t])
                                     THEN Returning("insert", t, 1)
                                     ELSE Violation("insert", t, 1)]
    /\ UNCHANGED <<next_txn_id_, txn_map_, ctx, freed, owner>>

Delete(th, t, rid) ==
    /\ thr[th].pc = "idle"
    /\ thr' = [thr EXCEPT ![th] = IF Precondition(ctx[t])
                                     THEN Returning("delete", t, rid)
                                     ELSE Violation("delete", t, rid)]
    /\ UNCHANGED <<next_txn_id_, txn_map_, ctx, freed, owner>>

Update(th, t, rid) ==
    /\ thr[th].pc = "idle"
    /\ thr' = [thr EXCEPT ![th] = IF Precondition(ctx[t])
                                     THEN Returning("update", t, rid)
                                     ELSE Violation("update", t, rid)]
    /\ UNCHANGED <<next_txn_id_, txn_map_, ctx, freed, owner>>

\* ------------------------------------- TwoPLManager::Commit and Abort
\* The statements after the state change, in program order
\* (variant: the context is neither deregistered nor deleted)
CommitPlanNoFree == <<"actions", "release", "return">>
CommitPlan == <<"actions", "release", "free", "return">>
\* (variant: the locks are released before the rollback)
AbortPlanReleaseFirst == <<"release", "actions", "free", "return">>
AbortPlan == <<"actions", "release", "free", "return">>

Reverse(q) == [i \in 1 .. Len(q) |-> q[Len(q) + 1 - i]]
\* (variant: the commit thunks are visited back to front)
CommitOrderReversed(q) == Reverse(q)

\* The order in which the range-for visits the queue
CommitOrder(q) == q
AbortOrder(q) == q

\* (variant: the loop over the shared lock set is missing)
ReleaseLockSetExclusiveOnly(c) == c.exclusive_lock_set_

\* ReleaseAllLocks lines 109-115: the local lock_set
ReleaseLockSet(c) == c.exclusive_lock_set_ \cup c.shared_lock_set_

\* lines 77-79 / 95-97: the range-for calls every thunk of the queue
RunActions(f, c) ==
    LET q == IF f.op = "commit" THEN CommitOrder(c.commit_action_)
                                ELSE AbortOrder(c.abort_action_)
        e == IF f.op = "commit" THEN "commit_action" ELSE "abort_action" IN
    [f EXCEPT !.log = @ \o [i \in 1 .. Len(q) |-> Event(e, q[i], c)]]

\* Enter the next statement of the frame's plan, or return to the caller
NextStatement(f, c) ==
    IF f.cont = <<>> THEN IdleFrame
    ELSE [f EXCEPT !.pc = Head(f.cont), !.cont = Tail(f.cont),
                   !.lock_set = IF Head(f.cont) = "release" THEN ReleaseLockSet(c) ELSE {}]

\* Run on to the next call into the lock manager or the transaction map:
\* the thunk loop runs through, an exhausted Unlock loop falls through
RECURSIVE Settle(_, _)
Settle(f, c) ==
    IF f.pc = "actions" THEN Settle(NextStatement(RunActions(f, c), c), c)
    ELSE IF f.pc = "release" /\ f.lock_set = {} THEN Settle(NextStatement(f, c), c)
    ELSE f

Advance(f, c) == Settle(NextStatement(f, c), c)

\* What a call finds at the context's address: the context, or, after its
\* delete, whatever the allocator left there (any queues; the state word
\* and the lock sets as delete left them)
Queues == {[i \in 1 .. k |-> i] : k \in 0 .. MaxActions}
Found(t) ==
    IF t \in freed
      THEN {[ctx[t] EXCEPT !.abort_action_ = q, !.commit_action_ = q] : q \in Queues}
      ELSE {ctx[t]}

\* The frame of a Commit/Abort that found c and has made the state change
Finishing(op, t, plan, c) ==
    [IdleFrame EXCEPT !.op = op, !.t = t, !.cont = plan, !.was = Was(t),
                      !.log = <<Event(IF op = "commit" THEN "COMMITTED" ELSE "ABORTED", 0, c)>>]

\* lines 73-79: SetCommitted, the commit actions
Commit(th, t) ==
    /\ thr[th].pc = "idle"
    /\ \E c \in Found(t) :
        /\ ctx' = [ctx EXCEPT ![t] = SetCommitted(c)]
        /\ thr' = [thr EXCEPT ![th] =
                     Advance(Finishing("commit", t, CommitPlan, c), SetCommitted(c))]
    /\ UNCHANGED <<next_txn_id_, txn_map_, freed, owner>>

\* lines 90-97: SetAborted, the abort actions
Abort(th, t) ==
    /\ thr[th].pc = "idle"
    /\ \E c \in Found(t) :
        /\ ctx' = [ctx EXCEPT ![t] = SetAborted(c)]
        /\ thr' = [thr EXCEPT ![th] =
                     Advance(Finishing("abort", t, AbortPlan, c), SetAborted(c))]
    /\ UNCHANGED <<next_txn_id_, txn_map_, freed, owner>>

\* ReleaseAllLocks lines 116-118: one iteration over the unordered lock_set
ReleaseOne(th, rid) ==
    LET t == thr[th].t IN
    /\ thr[th].pc = "release"
    /\ rid \in thr[th].lock_set
    /\ ctx' = [ctx EXCEPT ![t] = Unlock(@, rid)]
    /\ thr' = [thr EXCEPT ![th] =
                 Settle([@ EXCEPT !.lock_set = @ \ {rid},
                            !.log = Append(@, Event("unlock", rid, ctx[t]))],
                        Unlock(ctx[t], rid))]
    /\ UNCHANGED <<next_txn_id_, txn_map_, freed, owner>>

\* What delete leaves of a context: nothing but the entries the lock
\* manager still holds for it
Deleted(c) ==
    [NewContext("READ_UNCOMMITTED") EXCEPT !.state = "FREED",
        !.shared_lock_set_ = c.shared_lock_set_,
        !.exclusive_lock_set_ = c.exclusive_lock_set_]

\* lines 85-86 / 103-104: RemoveTransactionContext, delete
Free(th) ==
    LET t == thr[th].t IN
    /\ thr[th].pc = "free"
    /\ txn_map_' = txn_map_ \ {t}
    /\ freed' = freed \cup {t}
    /\ ctx' = [ctx EXCEPT ![t] = Deleted(@)]
    /\ thr' = [thr EXCEPT ![th] =
                 Advance([@ EXCEPT !.log = Append(@, Event("free", 0, ctx[t]))],
                         Deleted(ctx[t]))]
    /\ UNCHANGED <<next_txn_id_, owner>>

\* the call returns
Return(th) ==
    /\ thr[th].pc = "return"
    /\ thr' = [thr EXCEPT ![th] = IdleFrame]
    /\ UNCHANGED <<next_txn_id_, txn_map_, ctx, freed, owner>>

\* A call still running on a deleted context may fault
Fault(th) ==
    /\ thr[th].pc \notin {"idle", "fault", "return"}
    /\ thr[th].t \in freed
    /\ thr' = [thr EXCEPT ![th] = [IdleFrame EXCEPT !.pc = "fault"]]
    /\ UNCHANGED <<next_txn_id_, txn_map_, ctx, freed, owner>>

\* Steps of a call in progress
Finish(th) ==
    \/ \E rid \in RIDs : ReleaseOne(th, rid)
    \/ Free(th)
    \/ Return(th)

\* Calls the owner of a live context makes between other calls
Call(th, t) ==
    \/ AppendActions(th, t)
    \/ \E rid \in RIDs : LockExclusive(th, t, rid)
    \/ \E rid \in RIDs : LockExclusiveAborted(th, t, rid)
    \/ Insert(th, t)
    \/ \E rid \in RIDs : Delete(th, t, rid)
    \/ \E rid \in RIDs : Update(th, t, rid)

\* Every context is used by its owning thread alone and never after its
\* Commit or Abort
Next ==
    \/ \E th \in Threads, iso \in IsolationLevel : FirstSpare(th) /\ Begin(th, iso)
    \/ \E th \in Threads : ReadLockShared(th)
    \/ \E th \in Threads : ReadLockAborted(th)
    \/ \E th \in Threads, ok \in BOOLEAN : ReadFetch(th, ok)
    \/ \E th \in Threads : Finish(th)
    \/ \E th \in Threads, t \in Txns : Owns(th, t) /\ Call(th, t)
    \/ \E th \in Threads, t \in Txns, rid \in RIDs : Owns(th, t) /\ ReadCall(th, t, rid)
    \/ \E th \in Threads, t \in Txns : Owns(th, t) /\ Commit(th, t)
    \/ \E th \in Threads, t \in Txns : Owns(th, t) /\ Abort(th, t)

Spec == Init /\ [][Next]_vars

\* Two threads were handed the same context: either may call Read, Commit
\* and Abort on it, also concurrently and after its Commit or Abort
NextRace ==
    \/ \E th \in Threads, iso \in IsolationLevel :
          Allocated = {} /\ FirstSpare(th) /\ Begin(th, iso)
    \/ \E th \in Threads, ok \in BOOLEAN : ReadFetch(th, ok)
    \/ \E th \in Threads : Finish(th)
    \/ \E th \in Threads : Fault(th)
    \/ \E th \in Threads, t \in Txns : Owns(th, t) /\ AppendActions(th, t)
    \/ \E th \in Threads, t \in Txns, rid \in RIDs : Owns(th, t) /\ LockExclusive(th, t, rid)
    \/ \E th \in Threads, t \in Txns, rid \in RIDs :
          t \in Allocated \ freed /\ ReadCall(th, t, rid)
    \/ \E th \in Threads, t \in Txns : Reaches(th, t) /\ Commit(th, t)
    \/ \E th \in Threads, t \in Txns : Reaches(th, t) /\ Abort(th, t)

SpecRace == Init /\ [][NextRace]_vars

\* ------------------------------------ Begin, statement by statement
\* The ids Begin calls have handed back to their callers
Returned ==
    {t \in txn_map_ \cup freed :
        \A th \in Threads : ~(thr[th].op = "begin" /\ thr[th].t = t)}
\* The largest of them (-1: none yet)
LastReturned ==
    IF Returned = {} THEN -1
    ELSE CHOOSE t \in Returned : \A u \in Returned : u <= t

\* (variant: the increment of the counter is lost)
FetchAddLost(n) == n

\* line 65: next_txn_id_ after fetch_add(1); txn_id is the value before
FetchAdd(n) == n + 1

\* line 65: auto txn_id = next_txn_id_.fetch_add(1)
BeginCall(th, iso) ==
    /\ thr[th].pc = "idle"
    /\ next_txn_id_ < MaxTxn
    /\ LET txn_id == next_txn_id_ IN
        /\ next_txn_id_' = FetchAdd(next_txn_id_)
        /\ owner' = [owner EXCEPT ![txn_id] = th]
        /\ thr' = [thr EXCEPT ![th] =
                     [IdleFrame EXCEPT !.pc = "begin_new", !.op = "begin", !.t = txn_id,
                         !.isolation_level = iso,
                         !.log = <<[ev |-> "fetch_add", n |-> LastReturned,
                                    held |-> {}, state |-> "NONE"]>>]]
    /\ UNCHANGED <<txn_map_, ctx, freed>>

\* lines 66-69: new TwoPLContext(txn_id, isolation_level),
\* AddTransactionContext, return context
BeginNew(th) ==
    LET txn_id == thr[th].t IN
    /\ thr[th].pc = "begin_new"
    /\ ctx' = [ctx EXCEPT ![txn_id] = NewContext(thr[th].isolation_level)]
    /\ txn_map_' = txn_map_ \cup {txn_id}
    /\ thr' = [thr EXCEPT ![th].pc = "return", ![th].res = "CONTEXT"]
    /\ UNCHANGED <<next_txn_id_, freed, owner>>

\* Threads call Begin concurrently and finish their transactions
NextBegin ==
    \/ \E th \in Threads, iso \in IsolationLevel : Spare(th) /\ BeginCall(th, iso)
    \/ \E th \in Threads : BeginNew(th)
    \/ \E th \in Threads : Free(th)
    \/ \E th \in Threads : Return(th)
    \/ \E th \in Threads, t \in Txns : Owns(th, t) /\ Commit(th, t)
    \/ \E th \in Threads, t \in Txns : Owns(th, t) /\ Abort(th, t)

SpecBegin == Init /\ [][NextBegin]_vars

\* ------------------------------------------------- the undo thunks
\* The writes of a transaction to one RID: the image before the first write
\* is 0, the n-th write stores image n and registers abort action n, which
\* writes the prior image n - 1 back
UndoThunk(image, n) == n - 1
\* The image left by the thunks in the order they ran
RECURSIVE RunUndo(_, _)
RunUndo(image, ran) ==
    IF ran = <<>> THEN image
    ELSE RunUndo(UndoThunk(image, Head(ran)), Tail(ran))

\* ------------------------------------------------------------ properties
Finalizing(f) == f.op \in {"commit", "abort"}
DataOp(f) == f.op \in {"read", "insert", "delete", "update"}
Indexes(f, e) == {i \in DOMAIN f.log : f.log[i].ev = e}
\* No Begin, Commit or Abort call is in progress
Quiescent == \A th \in Threads : thr[th].op \notin {"begin", "commit", "abort"}
\* The locks the context held when the Commit/Abort call was entered
HeldAtEntry(f) == f.log[1].held
\* The thunk numbers the call has run, in the order it ran them
RECURSIVE Ran(_, _)
Ran(log, e) ==
    IF log = <<>> THEN <<>>
    ELSE IF Head(log).ev = e THEN <<Head(log).n>> \o Ran(Tail(log), e)
    ELSE Ran(Tail(log), e)

\* C1: when Commit or Abort returns, every RID the context held at entry
\* has been unlocked and the lock manager holds nothing for the context.
C1_NoLockAfterFinish ==
    \A th \in Threads :
        Finalizing(thr[th]) /\ thr[th].pc = "return" =>
            /\ HeldLocks(ctx[thr[th].t]) = {}
            /\ \A rid \in HeldAtEntry(thr[th]) :
                  \E i \in Indexes(thr[th], "unlock") : thr[th].log[i].n = rid

C1_Witness ==
    \E th \in Threads :
        /\ Finalizing(thr[th]) /\ thr[th].pc = "return"
        /\ HeldAtEntry(thr[th]) # {}

\* C2: an exclusive lock leaves a context's exclusive set only in the lock
\* release of a Commit or Abort running on that context; in particular a
\* Read of an X-locked RID leaves the X lock held.
C2_StrictTwoPhase ==
    [][\A t \in Txns, rid \in RIDs :
          IsExclusiveLocked(ctx[t], rid) /\ ~IsExclusiveLocked(ctx'[t], rid) =>
              \E th \in Threads :
                  Finalizing(thr[th]) /\ thr[th].t = t /\ thr[th].pc = "release"]_vars

C2_Witness ==
    \E th \in Threads :
        /\ thr[th].op = "read" /\ thr[th].pc = "return" /\ thr[th].res \in {"OK", "SKIP"}
        /\ ctx[thr[th].t].isolation_level_ = "READ_COMMITTED"
        /\ IsExclusiveLocked(ctx[thr[th].t], thr[th].rid)

\* C3: under REPEATABLE_READ and SERIALIZABLE a shared lock leaves the
\* shared set only by upgrade to X or in the lock release of Commit/Abort;
\* no Read, successful or SKIP, unlocks.
C3_SharedHeldToEnd ==
    [][\A t \in Txns, rid \in RIDs :
          /\ ctx[t].isolation_level_ \in {"REPEATABLE_READ", "SERIALIZABLE"}
          /\ IsSharedLocked(ctx[t], rid) /\ ~IsSharedLocked(ctx'[t], rid)
          => \/ IsExclusiveLocked(ctx'[t], rid)
             \/ \E th \in Threads :
                  Finalizing(thr[th]) /\ thr[th].t = t /\ thr[th].pc = "release"]_vars

C3_Witness ==
    \E th \in Threads :
        /\ thr[th].op = "read" /\ thr[th].pc = "return" /\ thr[th].res = "SKIP"
        /\ ctx[thr[th].t].isolation_level_ \in {"REPEATABLE_READ", "SERIALIZABLE"}
        /\ IsSharedLocked(ctx[thr[th].t], thr[th].rid)

\* C4: Abort runs the abort actions in reverse insertion order: an action
\* appended later (larger number) runs before one appended earlier.
C4_AbortLIFO ==
    \A th \in Threads :
        thr[th].op = "abort" =>
            \A i, j \in Indexes(thr[th], "abort_action") :
                i < j => thr[th].log[i].n > thr[th].log[j].n

\* C5: every abort action runs with the state ABORTED, before any Unlock of
\* the call, while every lock held at Abort entry is still held.
C5_RollbackUnderLocks ==
    \A th \in Threads :
        thr[th].op = "abort" =>
            \A i \in Indexes(thr[th], "abort_action") :
                /\ thr[th].log[i].state = "ABORTED"
                /\ HeldAtEntry(thr[th]) \subseteq thr[th].log[i].held
                /\ \A j \in Indexes(thr[th], "unlock") : i < j

C5_Witness ==
    \E th \in Threads :
        /\ thr[th].op = "abort" /\ thr[th].pc = "return"
        /\ Indexes(thr[th], "abort_action") # {}
        /\ HeldAtEntry(thr[th]) # {}

\* C6: Commit runs the commit actions in insertion order, each exactly once,
\* with the state COMMITTED and before the first Unlock; the context is
\* deregistered and destroyed only after every lock is released.
C6_CommitOrder ==
    \A th \in Threads :
        thr[th].op = "commit" =>
            LET f == thr[th]
                ran == Ran(f.log, "commit_action") IN
            /\ \A i \in DOMAIN ran : ran[i] = i
            /\ f.pc \in {"release", "free"} => ran = ctx[f.t].commit_action_
            /\ \A i \in Indexes(f, "commit_action") :
                  /\ f.log[i].state = "COMMITTED"
                  /\ \A j \in Indexes(f, "unlock") \cup Indexes(f, "free") : i < j
            /\ \A i \in Indexes(f, "free") :
                  /\ f.log[i].held = {}
                  /\ \A j \in Indexes(f, "unlock") : j < i

C6_Witness ==
    \E th \in Threads :
        /\ thr[th].op = "commit" /\ thr[th].pc = "return"
        /\ Len(Ran(thr[th].log, "commit_action")) >= 2
        /\ Indexes(thr[th], "unlock") # {}

\* C7: a Commit or Abort call on a context that an earlier Commit or Abort
\* has already finished runs no action, issues no Unlock and does not
\* deregister or destroy again: nothing follows its entry.
C7_SecondCallNoOp ==
    \A th \in Threads :
        Finalizing(thr[th]) /\ thr[th].was = "FREED" => Len(thr[th].log) <= 1

\* C8: under concurrent Commit/Abort calls on one context the context is
\* destroyed once and never accessed after its destruction: no call that
\* began on the live context is still working on it once it is deleted.
C8_ReleasedOnce ==
    \A th \in Threads :
        /\ Finalizing(thr[th]) /\ thr[th].was # "FREED"
        /\ thr[th].pc \in {"release", "free"}
        => thr[th].t \notin freed

\* C9: ABORTED and COMMITTED are terminal: Commit on an ABORTED context
\* and Abort on a COMMITTED context end with STATE_VIOLATION and leave the
\* state as it was.
C9_TerminalStates ==
    \A th \in Threads :
        \/ thr[th].op = "commit" /\ thr[th].was = "ABORTED"
        \/ thr[th].op = "abort" /\ thr[th].was = "COMMITTED"
        => /\ thr[th].res = "STATE_VIOLATION"
           /\ ctx[thr[th].t].state = thr[th].was

\* C10: a data operation called on an ABORTED or COMMITTED context ends
\* with STATE_VIOLATION before any work: no lock request, no table access.
C10_DataOpOnTerminal ==
    \A th \in Threads :
        DataOp(thr[th]) /\ thr[th].was \in {"ABORTED", "COMMITTED"} =>
            /\ thr[th].pc = "return"
            /\ thr[th].res = "STATE_VIOLATION"
            /\ thr[th].log = <<>>

\* C11: a Read whose shared-lock request ended with the transaction aborted
\* as deadlock victim does not call GetTuple and returns ABORTED.
C11_ReadShortCircuits ==
    \A th \in Threads :
        /\ thr[th].op = "read" /\ thr[th].pc = "return"
        /\ thr[th].was = "GROWING" /\ IsAborted(ctx[thr[th].t])
        => /\ thr[th].res = "ABORTED"
           /\ thr[th].log = <<>>

\* C12: concurrent Begin calls get distinct txn ids, none of them an id
\* already given out, and each id is larger than every id that a Begin had
\* returned before the call started.
C12_TxnIdsUniqueMonotonic ==
    /\ \A th \in Threads :
          thr[th].op = "begin" =>
              /\ thr[th].t > thr[th].log[1].n
              /\ thr[th].pc = "begin_new" => thr[th].t \notin txn_map_ \cup freed
    /\ \A th, u \in Threads :
          th # u /\ thr[th].op = "begin" /\ thr[u].op = "begin" => thr[th].t # thr[u].t

C12_Witness ==
    \E th, u \in Threads :
        /\ th # u
        /\ thr[th].op = "begin" /\ thr[th].pc = "begin_new"
        /\ thr[u].op = "begin" /\ thr[u].pc = "begin_new"

\* C13: at READ_COMMITTED and above a Read does not fetch the tuple of a
\* RID while another transaction holds an exclusive lock on it.
C13_NoDirtyRead ==
    [][\A th \in Threads :
          /\ thr[th].pc = "read_fetch" /\ thr'[th].pc = "return"
          /\ ctx[thr[th].t].isolation_level_ # "READ_UNCOMMITTED"
          => ~OtherExclusive(thr[th].t, thr[th].rid)]_vars

\* C14: a Read by a READ_UNCOMMITTED transaction never waits for a lock: it
\* goes straight to the fetch, also while another transaction holds X on the
\* RID, and leaves both lock sets of its context as they were.
C14_ReadUncommittedNoLock ==
    [][\A th \in Threads :
          /\ thr'[th].op = "read" /\ thr'[th] # thr[th]
          /\ thr'[th].res # "STATE_VIOLATION"
          /\ ctx[thr'[th].t].isolation_level_ = "READ_UNCOMMITTED"
          => /\ thr'[th].pc # "read_lock"
             /\ thr[th].pc = "idle" => thr'[th].pc = "read_fetch"
             /\ ctx'[thr'[th].t].shared_lock_set_ = ctx[thr'[th].t].shared_lock_set_
             /\ ctx'[thr'[th].t].exclusive_lock_set_ = ctx[thr'[th].t].exclusive_lock_set_]_vars

C14_Witness ==
    \E th \in Threads :
        /\ thr[th].op = "read" /\ thr[th].pc = "return" /\ thr[th].res = "OK"
        /\ ctx[thr[th].t].isolation_level_ = "READ_UNCOMMITTED"
        /\ OtherExclusive(thr[th].t, thr[th].rid)

\* C15: when a Read of a READ_COMMITTED transaction returns OK or SKIP, the
\* RID is not in the context's shared lock set.
C15_ReadCommittedReleases ==
    \A th \in Threads :
        /\ thr[th].op = "read" /\ thr[th].pc = "return"
        /\ thr[th].res \in {"OK", "SKIP"}
        /\ ctx[thr[th].t].isolation_level_ = "READ_COMMITTED"
        => ~IsSharedLocked(ctx[thr[th].t], thr[th].rid)

C15_Witness ==
    \E th \in Threads :
        /\ thr[th].op = "read" /\ thr[th].pc = "return" /\ thr[th].res = "SKIP"
        /\ ctx[thr[th].t].isolation_level_ = "READ_COMMITTED"
        /\ thr[th].rid \in thr[th].log[1].held
        /\ thr[th].rid \notin HeldLocks(ctx[thr[th].t])

C17_WriteHoldsExclusive ==
    \A th \in Threads :
        /\ thr[th].op \in {"update", "delete"} /\ thr[th].pc = "return"
        /\ thr[th].res # "STATE_VIOLATION"
        => /\ IsExclusiveLocked(ctx[thr[th].t], thr[th].rid)
           /\ ~IsSharedLocked(ctx[thr[th].t], thr[th].rid)

\* C18: with no Begin, Commit or Abort in progress the registry holds
\* exactly the ids handed out and not yet finished; the context Begin
\* returns is registered, GROWING and of the requested isolation level; the
\* id is not registered when Commit or Abort returns.
C18_RegistryConsistent ==
    /\ Quiescent => txn_map_ = Allocated \ freed
    /\ \A th \in Threads :
          thr[th].op = "begin" /\ thr[th].pc = "return" =>
              /\ thr[th].t \in txn_map_
              /\ ctx[thr[th].t].state = "GROWING"
              /\ ctx[thr[th].t].isolation_level_ = thr[th].isolation_level
    /\ \A th \in Threads :
          Finalizing(thr[th]) /\ thr[th].pc = "return" => thr[th].t \notin txn_map_

C18_Witness ==
    /\ Quiescent
    /\ txn_map_ # {}
    /\ freed # {}

\* C19: no RID is in both lock sets of a context, and a Read waits for a
\* shared lock only on a RID its context holds in neither mode.
C19_LockSetsDisjoint ==
    /\ \A t \in Allocated : ctx[t].shared_lock_set_ \cap ctx[t].exclusive_lock_set_ = {}
    /\ \A th \in Threads :
          thr[th].pc = "read_lock" => thr[th].rid \notin HeldLocks(ctx[thr[th].t])

C19_Witness ==
    \E th \in Threads :
        /\ thr[th].op = "read" /\ thr[th].pc = "return" /\ thr[th].res = "OK"
        /\ ctx[thr[th].t].isolation_level_ = "REPEATABLE_READ"
        /\ IsExclusiveLocked(ctx[thr[th].t], thr[th].rid)
        /\ ~IsSharedLocked(ctx[thr[th].t], thr[th].rid)

\* C20: a Read whose GetTuple fails returns SKIP with the context's state
\* and action queues unchanged, no action run, and the lock sets a
\* successful Read leaves: the RID's S lock released under READ_COMMITTED,
\* nothing released otherwise.
C20_SkipIsNotAbort ==
    [][\A th \in Threads :
          thr[th].pc = "read_fetch" /\ thr'[th].pc = "return" /\ thr'[th].res = "SKIP" =>
              LET c == ctx[thr[th].t]
                  d == ctx'[thr[th].t] IN
              /\ d.state = c.state
              /\ d.abort_action_ = c.abort_action_
              /\ d.commit_action_ = c.commit_action_
              /\ Indexes(thr'[th], "abort_action") \cup Indexes(thr'[th], "commit_action") = {}
              /\ d.exclusive_lock_set_ = c.exclusive_lock_set_
              /\ d.shared_lock_set_ =
                    IF c.isolation_level_ = "READ_COMMITTED"
                      THEN c.shared_lock_set_ \ {thr[th].rid}
                      ELSE c.shared_lock_set_]_vars

C20_Witness ==
    \E th \in Threads :
        /\ thr[th].op = "read" /\ thr[th].pc = "return" /\ thr[th].res = "SKIP"
        /\ ctx[thr[th].t].state = "GROWING"
        /\ ctx[thr[th].t].abort_action_ # <<>>
        /\ HeldLocks(ctx[thr[th].t]) # {}
====
